---- MODULE Spec2Model ----
(***************************************************************************)
(* Plan-execute-synthesize core of the customer service agent              *)
(* (src/src/agent.py) with its tool collaborators (src/src/tools) and the  *)
(* backing store seeded by src/src/db/init_db.py.                          *)
(*                                                                         *)
(* Encoding of Python values:                                              *)
(*   dict      -> record; a key that is absent is absent from DOMAIN       *)
(*   {}        -> the empty record << >>                                   *)
(*   list      -> sequence                                                 *)
(*   str       -> string; Python None in a string position is None         *)
(*   int       -> integer; Python None in a row-id position is NoneId      *)
(*   a truthy value that is not a str, in a string position                *)
(*             -> a member of NonStrings                                   *)
(*   a JSON value that is not an object, where the code expects a dict     *)
(*             -> [json |-> <its JSON type>]                               *)
(*   the value of the planner's "plan" member -> JsonList(steps), JsonNull  *)
(*   len(str)  -> response bodies are represented by their length          *)
(***************************************************************************)
EXTENDS Integers, Sequences, FiniteSets, TLC

VARIABLES
    pc,            \* per request: position in handle_user_message
    user_message,  \* per request: the customer's text
    metadata,      \* per request: the metadata mapping passed by the caller
    response,      \* per request: what POST /message answered
    planner_text,  \* per request: the planner model's answer (`text`)
    plan,          \* per request: the step list handed to execute_plan
    idx,           \* per request: 1-based index of the next plan step
    trace,         \* per request: execute_plan's local `trace`
    final_text,    \* per request: execute_plan's local `final_text`
    ret,           \* per request: the value returned to the caller
    exc,           \* per request: the exception raised to the caller
    calls,         \* per request: collaborator calls made so far, in order
    tickets,       \* store: rows of the tickets table, in rowid order
    kb,            \* store: rows of the kb FTS table, in rowid order
    api            \* the last call on the store-facing HTTP endpoints and its answer

vars == <<pc, user_message, metadata, response, planner_text, plan, idx, trace,
          final_text, ret, exc, calls, tickets, kb, api>>

-----------------------------------------------------------------------------
(* Bounds *)

MaxPlanLen == 3
MaxTextLen == 4
MaxConcurrentPlanLen == 2
MaxTickets == 3
MaxKbAdded == 19

-----------------------------------------------------------------------------
(* Python value helpers *)

None == "None"
NoneId == 0
EmptyMap == << >>
JsonNull == [json |-> "null"]
JsonString == [json |-> "string"]
JsonNumber == [json |-> "number"]

\* A JSON array in a position where the code may also meet a non-array.
JsonList(items) == [items |-> items]
IsList(v) == "items" \in DOMAIN v

IsMapping(v) == "json" \notin DOMAIN v

\* dict.get(key, default)
Get(d, key, default) == IF key \in DOMAIN d THEN d[key] ELSE default

\* truth value of a str-or-None value
Truthy(s) == s # None /\ s # ""

\* Values a JSON document can put where the code expects a str.
NonStrings == { "<int 42>" }
IsStr(v) == v \notin NonStrings /\ v # None

\* str.strip() on the strings of the model
Strip(s) ==
    CASE s = " " -> ""
      [] s = " Ann " -> "Ann"
      [] OTHER -> s

Min(a, b) == IF a <= b THEN a ELSE b

Reverse(seq) == [i \in 1..Len(seq) |-> seq[Len(seq) + 1 - i]]

-----------------------------------------------------------------------------
(* Backing store: src/src/db/init_db.py *)

\* One row of the kb FTS5 table.  `terms` is the part of the indexed text
\* (title, content, category, tags) that the queries of the model can hit.
KbRow(title, content, terms) ==
    [title |-> title, content |-> content, terms |-> terms]

kb_samples ==
    << KbRow("Return Policy", "Our return policy allows ...", {"return", "policy", "refund"}),
       KbRow("Shipping Information", "We offer multiple shipping options ...", {"shipping", "tracking"}),
       KbRow("Payment Methods", "We accept all major credit cards ...", {"payment"}),
       KbRow("Product Warranty", "All products come with a 1-year ...", {"warranty"}),
       KbRow("Account Management", "You can manage your account ...", {"account", "payment"}),
       KbRow("Technical Support", "For technical issues with products ...", {"warranty", "support"}),
       KbRow("Bulk Orders", "We offer special pricing for bulk orders ...", {"orders"}),
       KbRow("International Shipping", "We ship internationally ...", {"shipping", "international"}),
       KbRow("Live Chat Hours", "Our live chat support is available ...", {"support"}),
       KbRow("Store Locations", "We have physical stores in ...", {"orders"}),
       KbRow("Price Match", "We offer a 30-day price match guarantee ...", {"policy"}),
       KbRow("Gift Cards", "Gift cards are available for purchase ...", {"refund"}) >>

\* A row of the tickets table; id is the AUTOINCREMENT rowid, status and
\* priority take the column defaults unless given.
TicketRow(id, name, email, subject, body) ==
    [id |-> id, customer_name |-> name, customer_email |-> email,
     subject |-> subject, body |-> body, status |-> "open", priority |-> "medium"]

SampleTicket(id) ==
    TicketRow(id, "John Doe", "john.doe@example.com", "Order Status Inquiry",
              "I placed an order last week ...")

\* The store as init_db leaves it on a fresh database file.
InitialTickets == << SampleTicket(1) >>
InitialKb == kb_samples

\* The CHECK constraint of tickets.status.
Statuses == {"open", "in_progress", "closed", "pending"}

\* init_db on an existing database file: the tables are kept (CREATE ... IF
\* NOT EXISTS), every kb row is deleted and the 12 samples are inserted, and
\* the sample ticket is inserted again: INSERT OR IGNORE skips a row only on
\* a uniqueness conflict, and the row names no unique column.
init_db(ticket_rows, kb_rows) ==
    [tickets |-> Append(ticket_rows, SampleTicket(Len(ticket_rows) + 1)),
     kb      |-> kb_samples]

-----------------------------------------------------------------------------
(* Tool collaborators: src/src/tools *)

\* The terms an FTS5 MATCH expression asks for (implicit AND of its words).
QueryTerms(query) ==
    CASE query = "return policy" -> {"return", "policy"}
      [] OTHER -> {query}

\* FTS5 rejects a NULL or empty MATCH expression with sqlite3.OperationalError.
MatchSyntaxOk(query) == query # None /\ query # ""

\* SQL LIMIT: a negative limit means no limit.
Limit(rows, top_k) ==
    IF top_k < 0 THEN rows ELSE SubSeq(rows, 1, Min(top_k, Len(rows)))

\* Faulty variant: the number of rows returned shrinks as tickets are added.
search_kb_TicketsDependent(query, top_k, rows, db_ok) ==
    IF ~db_ok \/ ~MatchSyntaxOk(query) THEN << >>
    ELSE LET hits == SelectSeq(rows, LAMBDA row : QueryTerms(query) \subseteq row.terms)
             out  == Limit(hits, IF Len(tickets) > Len(InitialTickets) THEN 0 ELSE top_k)
         IN  [i \in 1..Len(out) |-> [title |-> out[i].title, content |-> out[i].content]]

\* kb.search_kb(query, top_k): db_ok is FALSE when sqlite raises (file
\* unavailable, locked, ...); every sqlite3.Error and Exception yields [].
search_kb(query, top_k, rows, db_ok) ==
    IF ~db_ok \/ ~MatchSyntaxOk(query) THEN << >>
    ELSE LET hits == SelectSeq(rows, LAMBDA row : QueryTerms(query) \subseteq row.terms)
             out  == Limit(hits, top_k)
         IN  [i \in 1..Len(out) |-> [title |-> out[i].title, content |-> out[i].content]]

\* Faulty variant: the required fields are not checked before the insert.
create_ticket_Unvalidated(customer_name, customer_email, subject, body, rows, db_ok) ==
    IF ~db_ok \/ body = None THEN [id |-> NoneId, rows |-> rows]
    ELSE LET ticket_id == Len(rows) + 1
         IN  [id |-> ticket_id,
              rows |-> Append(rows, TicketRow(ticket_id, Strip(customer_name),
                                              Strip(customer_email), Strip(subject),
                                              Strip(body)))]

\* tickets.create_ticket: the returned id (NoneId for None) and the table
\* afterwards.  body = None makes body.strip() raise AttributeError, which
\* the function's `except Exception` turns into None.
create_ticket(customer_name, customer_email, subject, body, rows, db_ok) ==
    IF ~db_ok THEN [id |-> NoneId, rows |-> rows]
    ELSE IF ~Truthy(customer_name) \/ ~Truthy(customer_email) \/ ~Truthy(subject)
    THEN [id |-> NoneId, rows |-> rows]
    ELSE IF body = None THEN [id |-> NoneId, rows |-> rows]
    ELSE LET ticket_id == Len(rows) + 1
         IN  [id |-> ticket_id,
              rows |-> Append(rows, TicketRow(ticket_id, Strip(customer_name),
                                              Strip(customer_email), Strip(subject),
                                              Strip(body)))]

\* Faulty variant: the status column has no CHECK constraint.
update_ticket_status_Unchecked(ticket_id, new_status, rows, db_ok) ==
    LET hit == { k \in DOMAIN rows : rows[k].id = ticket_id } IN
    IF ~db_ok \/ hit = {} THEN [ok |-> FALSE, rows |-> rows]
    ELSE [ok   |-> TRUE,
          rows |-> [k \in DOMAIN rows |->
                      IF k \in hit THEN [rows[k] EXCEPT !.status = new_status]
                      ELSE rows[k]]]

\* tickets.update_ticket_status: the returned bool and the table afterwards.
\* db_ok is FALSE when sqlite raises for a reason of its own (file
\* unavailable, "database is locked").  An UPDATE that matches no row changes
\* nothing (rowcount 0); one that would store a value outside the CHECK
\* constraint raises sqlite3.IntegrityError and changes nothing; both return
\* False.  A non-string status is stored as its text, which the constraint
\* rejects all the same.
update_ticket_status(ticket_id, new_status, rows, db_ok) ==
    LET hit == { k \in DOMAIN rows : rows[k].id = ticket_id } IN
    IF ~db_ok \/ hit = {} \/ new_status \notin Statuses
    THEN [ok |-> FALSE, rows |-> rows]
    ELSE [ok   |-> TRUE,
          rows |-> [k \in DOMAIN rows |->
                      IF k \in hit THEN [rows[k] EXCEPT !.status = new_status]
                      ELSE rows[k]]]

\* tickets.list_open_tickets: the rows with status 'open', newest first (the
\* rows of the model are created at distinct times, so rowid order is
\* created_at order), reduced to the selected columns; [] when sqlite raises.
list_open_tickets(rows, db_ok) ==
    IF ~db_ok THEN << >>
    ELSE LET open == Reverse(SelectSeq(rows, LAMBDA row : row.status = "open"))
         IN  [i \in 1..Len(open) |->
                 [id |-> open[i].id, customer_name |-> open[i].customer_name,
                  subject |-> open[i].subject]]

\* The FTS5 tokens of an inserted title and content that the queries of the
\* model can hit.
IndexedTerms(title, content) ==
    CASE title = "Holiday Policy" -> {"holiday", "policy", "return"}
      [] OTHER -> {}

\* kb.add_kb_entry(title, content): the returned bool and the table
\* afterwards; category and tags stay NULL.
add_kb_entry(title, content, rows, db_ok) ==
    IF ~db_ok THEN [ok |-> FALSE, rows |-> rows]
    ELSE [ok   |-> TRUE,
          rows |-> Append(rows, KbRow(title, content, IndexedTerms(title, content)))]

\* The parameters add_kb_entry declares: a call with any other keyword raises
\* TypeError before the body runs.
add_kb_entry_params == {"title", "content"}

\* url.startswith(('http://', 'https://')) on the urls of the model
StartsWithHttp(url) ==
    url \in {"https://api.example.com/orders/12345", "http://status.example.com"}

\* http_get's local validation: TRUE when the request is attempted.
UrlAccepted(url) == Truthy(url) /\ IsStr(url) /\ StartsWithHttp(url)

TextLimit == 4000

\* What requests.get can do: answer, or raise one of the exception classes
\* http_get distinguishes.  A body is represented by its length.
NetOutcomes ==
    { [kind |-> "response", status_code |-> 200, body |-> 120],
      [kind |-> "response", status_code |-> 404, body |-> 0],
      [kind |-> "response", status_code |-> 200, body |-> TextLimit + 1],
      [kind |-> "Timeout"],
      [kind |-> "ConnectionError"],
      [kind |-> "RequestException"] }

HttpFailure(error) ==
    [success |-> FALSE, status_code |-> 0, text |-> 0, error |-> error]

\* http_tool.http_get(url) given what the network does.
http_get(url, net) ==
    IF ~Truthy(url) THEN HttpFailure("Invalid URL format")
    ELSE IF ~IsStr(url)
    THEN \* url.startswith raises AttributeError, caught by `except Exception`
         HttpFailure("Unexpected error: 'int' object has no attribute 'startswith'")
    ELSE IF ~StartsWithHttp(url) THEN HttpFailure("Invalid URL format")
    ELSE CASE net.kind = "response" ->
                [success |-> TRUE, status_code |-> net.status_code,
                 text |-> Min(net.body, TextLimit), headers |-> "response.headers",
                 error |-> None]
           [] net.kind = "Timeout" -> HttpFailure("Request timed out")
           [] net.kind = "ConnectionError" -> HttpFailure("Connection error")
           [] OTHER -> HttpFailure("Request error: " \o net.kind)

-----------------------------------------------------------------------------
(* Planner: src/src/agent.py, call_gemini_planner *)

TOOLS == {"search_kb", "create_ticket", "http_get"}

\* Faulty variant: the caller's metadata is written into the prompt.
PlannerPromptWithContext(message, context) ==
    [user_message |-> message, tools |-> TOOLS, context |-> context]

\* The prompt built from the user's message and the tool registry; the
\* `context` parameter does not enter it.
PlannerPrompt(message, context) == [user_message |-> message, tools |-> TOOLS]

\* The planner model's text, as a sequence of tokens:
\*   "{" "}"      the braces that delimit a top-level JSON object
\*   "plan"       the member  "plan": [ <steps> ]   (the steps are `payload`)
\*   "plan_null"  the member  "plan": null
\*   "no_plan"    a member other than "plan"
\*   "42"         a JSON number
\*   "prose"      words that are not JSON
Tokens == {"{", "}", "plan", "plan_null", "no_plan", "42", "prose"}

Texts == UNION { [1..n -> Tokens] : n \in 0..MaxTextLen }

Undecodable == [ok |-> FALSE, value |-> EmptyMap]
Decoded(value) == [ok |-> TRUE, value |-> value]

\* json.loads on a token sequence: ok is FALSE when it raises.
json_loads(text, payload) ==
    CASE text = << "42" >> -> Decoded(JsonNumber)
      [] text = << "{", "}" >> -> Decoded(EmptyMap)
      [] text = << "{", "plan", "}" >> -> Decoded([plan |-> JsonList(payload)])
      [] text = << "{", "plan_null", "}" >> -> Decoded([plan |-> JsonNull])
      [] text = << "{", "no_plan", "}" >> -> Decoded([note |-> "no plan member"])
      [] OTHER -> Undecodable

\* The step objects spelled inside a "plan" member carry braces of their own.
ObjectSteps(payload) == { i \in DOMAIN payload : IsMapping(payload[i]) }
HasOpen(token, payload) ==
    token = "{" \/ (token = "plan" /\ ObjectSteps(payload) # {})
HasClose(token, payload) ==
    token = "}" \/ (token = "plan" /\ ObjectSteps(payload) # {})

\* re.search(r'(\{.*\})', text, re.S): from the first "{" to the last "}".
\* found is FALSE when there is no match; otherwise first/last are the
\* positions of the tokens holding the two braces.
re_search(text, payload) ==
    LET opens == { i \in DOMAIN text : HasOpen(text[i], payload) } IN
    IF opens = {} THEN [found |-> FALSE, first |-> 0, last |-> 0]
    ELSE LET first  == CHOOSE i \in opens : \A j \in opens : i <= j
             closes == { i \in DOMAIN text :
                           /\ HasClose(text[i], payload)
                           /\ (i > first \/ (i = first /\ text[i] = "plan")) }
         IN  IF closes = {} THEN [found |-> FALSE, first |-> 0, last |-> 0]
             ELSE [found |-> TRUE, first |-> first,
                   last |-> CHOOSE i \in closes : \A j \in closes : j <= i]

\* json.loads(m.group(1))
json_loads_group(text, payload, m) ==
    IF text[m.first] = "{" /\ text[m.last] = "}"
    THEN json_loads(SubSeq(text, m.first, m.last), payload)
    ELSE IF m.first = m.last /\ Cardinality(ObjectSteps(payload)) = 1
    THEN \* the match is exactly the one step object inside the member
         Decoded(payload[CHOOSE i \in ObjectSteps(payload) : TRUE])
    ELSE Undecodable

\* Faulty variant: an undecodable answer is taken for an empty object.
ParsePlannerTextLenient(text, payload) ==
    LET strict == json_loads(text, payload) IN
    IF strict.ok THEN [raised |-> FALSE, value |-> strict.value]
    ELSE LET m == re_search(text, payload) IN
         IF m.found /\ json_loads_group(text, payload, m).ok
         THEN [raised |-> FALSE, value |-> json_loads_group(text, payload, m).value]
         ELSE [raised |-> FALSE, value |-> EmptyMap]

\* call_gemini_planner after the model answered `text`: the decoded value,
\* or raised = TRUE for RuntimeError("Planner produced non-JSON response").
ParsePlannerText(text, payload) ==
    LET strict == json_loads(text, payload) IN
    IF strict.ok THEN [raised |-> FALSE, value |-> strict.value]
    ELSE LET m == re_search(text, payload) IN
         IF m.found
         THEN LET j == json_loads_group(text, payload, m) IN
              IF j.ok THEN [raised |-> FALSE, value |-> j.value]
              ELSE [raised |-> TRUE, value |-> EmptyMap]
         ELSE [raised |-> TRUE, value |-> EmptyMap]

-----------------------------------------------------------------------------
(* Inputs: the plans the planner model can spell, the texts it can answer *)

S_search ==
    [action |-> "search_kb", args |-> [query |-> "shipping", top_k |-> 1],
     reason |-> "look up shipping"]
S_search_null ==
    [action |-> "search_kb", args |-> JsonNull, reason |-> "args is null"]
\* search_kb steps over the range of top_k: negative, zero, absent
S_search_all ==
    [action |-> "search_kb", args |-> [query |-> "shipping", top_k |-> -1],
     reason |-> "negative top_k"]
S_search_zero ==
    [action |-> "search_kb", args |-> [query |-> "shipping", top_k |-> 0],
     reason |-> "zero top_k"]
S_search_dflt ==
    [action |-> "search_kb", args |-> [query |-> "support"], reason |-> "default top_k"]
S_ticket ==
    [action |-> "create_ticket",
     args |-> [customer_name |-> " Ann ", customer_email |-> "ann@example.com",
               subject |-> "Refund", body |-> "Where is my refund?"],
     reason |-> "escalate"]
S_ticket_dflt == [action |-> "create_ticket"]
S_ticket_noname ==
    [action |-> "create_ticket",
     args |-> [customer_name |-> "", customer_email |-> "ann@example.com",
               subject |-> "Refund", body |-> "Where is my refund?"],
     reason |-> "empty customer_name"]
S_http ==
    [action |-> "http_get", args |-> [url |-> "https://api.example.com/orders/12345"],
     reason |-> "order status"]
S_http_ftp ==
    [action |-> "http_get", args |-> [url |-> "ftp://example.com"]]
S_http_nourl == [action |-> "http_get", args |-> EmptyMap, reason |-> "url missing"]
S_http_null == [action |-> "http_get", args |-> [url |-> None], reason |-> "url null"]
S_http_empty == [action |-> "http_get", args |-> [url |-> ""], reason |-> "url empty"]
S_http_int == [action |-> "http_get", args |-> [url |-> "<int 42>"], reason |-> "url is 42"]
S_respond ==
    [action |-> "respond", args |-> [text |-> "You can return items within 30 days."],
     reason |-> "answer directly"]
S_respond_empty == [action |-> "respond", args |-> [text |-> ""], reason |-> "empty"]
S_respond_notext == [action |-> "respond", args |-> EmptyMap]
S_unknown ==
    [action |-> "frobnicate", args |-> [target |-> "order"], reason |-> "not a tool"]
S_noaction == [args |-> EmptyMap, reason |-> "no action member"]
S_notobject == JsonString

StepPool ==
    { S_search, S_search_null, S_ticket, S_ticket_dflt, S_http, S_http_ftp,
      S_respond, S_respond_empty, S_respond_notext, S_unknown, S_noaction,
      S_notobject }

\* Plans made of search_kb steps only.
SearchPool == { S_search, S_search_all, S_search_zero, S_search_dflt }

\* Plans that put the tools' argument validation to work.
TicketPool == { S_ticket_noname, S_ticket, S_respond }
UrlPool == { S_http_nourl, S_http_null, S_http_empty, S_http_int, S_http_ftp }

PlansOver(pool) == UNION { [1..n -> pool] : n \in 0..MaxPlanLen }

Plans ==
    PlansOver(StepPool) \cup PlansOver(SearchPool) \cup PlansOver(TicketPool)
        \cup PlansOver(UrlPool)

\* Around a well-formed object every plan is tried; in the other texts the
\* member's steps matter only through the braces they carry.
FullPayloadTexts == { << "{", "plan", "}" >>, << "prose", "{", "plan", "}" >> }
SmallPlans == { << >>, << S_respond >>, << S_unknown, S_notobject >>, << S_ticket, S_http >> }
PayloadsOf(text) ==
    IF text \in FullPayloadTexts THEN Plans
    ELSE IF \E i \in DOMAIN text : text[i] = "plan" THEN SmallPlans
    ELSE { << >> }

Messages == { "What is your return policy?" }
Metadatas ==
    { [customer_name |-> "Test Customer", customer_email |-> "test@example.com",
       session_id |-> "session-1"] }

\* What the synthesis model call can answer.
SynthTexts == { "", "Thanks for reaching out! Here is what we found." }

Requests == { 1 }

-----------------------------------------------------------------------------
(* State machine *)

NoReturn == << >>
NoText == << >>
ModelText(text, payload) == [text |-> text, payload |-> payload]
NoExc == << >>
NoResponse == << >>
NoExchange ==
    [endpoint |-> "none", request |-> << >>, called |-> FALSE, returned |-> FALSE,
     status_code |-> 0, body |-> << >>]

Init ==
    /\ pc = [r \in Requests |-> "start"]
    /\ user_message \in [Requests -> Messages]
    /\ metadata \in [Requests -> Metadatas]
    /\ response = [r \in Requests |-> NoResponse]
    /\ planner_text = [r \in Requests |-> NoText]
    /\ plan = [r \in Requests |-> << >>]
    /\ idx = [r \in Requests |-> 0]
    /\ trace = [r \in Requests |-> << >>]
    /\ final_text = [r \in Requests |-> None]
    /\ ret = [r \in Requests |-> NoReturn]
    /\ exc = [r \in Requests |-> NoExc]
    /\ calls = [r \in Requests |-> << >>]
    /\ tickets = InitialTickets
    /\ kb = InitialKb
    /\ api = NoExchange

PlannerCall(r, failed) ==
    [fn |-> "generate_content", purpose |-> "plan", failed |-> failed,
     prompt |-> PlannerPrompt(user_message[r], metadata[r])]

\* An exception leaves handle_user_message: nothing is returned.
Raise(r, exception) ==
    /\ pc' = [pc EXCEPT ![r] = "raised"]
    /\ exc' = [exc EXCEPT ![r] = exception]

\* agent.py:49-50: the planner model call itself fails.
PlannerCallFails(r) ==
    /\ pc[r] = "start"
    /\ calls' = [calls EXCEPT ![r] = Append(@, PlannerCall(r, TRUE))]
    /\ Raise(r, [type |-> "ModelCallError", at |-> "call_gemini_planner"])
    /\ UNCHANGED <<user_message, metadata, response, planner_text, plan, idx, trace, final_text, ret,
                   tickets, kb, api>>

\* agent.py:51-63: neither json.loads nor the fallback extraction decodes the text.
PlannerUnparseable(r) ==
    /\ pc[r] = "start"
    /\ \E text \in Texts : \E payload \in PayloadsOf(text) :
          /\ ParsePlannerText(text, payload).raised
          /\ planner_text' = [planner_text EXCEPT ![r] = ModelText(text, payload)]
          /\ Raise(r, [type |-> "RuntimeError", at |-> "call_gemini_planner"])
    /\ calls' = [calls EXCEPT ![r] = Append(@, PlannerCall(r, FALSE))]
    /\ UNCHANGED <<user_message, metadata, response, plan, idx, trace, final_text, ret,
                   tickets, kb, api>>

\* agent.py:107-109 and 66-68: the text decodes; handle_user_message reads the
\* "plan" member and execute_plan starts iterating it.
PlannerDecodedAs(r, text, payload) ==
    /\ pc[r] = "start"
    /\ calls' = [calls EXCEPT ![r] = Append(@, PlannerCall(r, FALSE))]
    /\ LET parsed == ParsePlannerText(text, payload) IN
          /\ ~parsed.raised
          /\ planner_text' = [planner_text EXCEPT ![r] = ModelText(text, payload)]
          /\ IF ~IsMapping(parsed.value)
             THEN \* planner_out.get on a non-dict
                  /\ Raise(r, [type |-> "AttributeError", at |-> "handle_user_message"])
                  /\ UNCHANGED <<plan, idx>>
             ELSE LET plan_value == Get(parsed.value, "plan", JsonList(<< >>)) IN
                  IF ~IsList(plan_value)
                  THEN \* for step in None
                       /\ Raise(r, [type |-> "TypeError", at |-> "execute_plan"])
                       /\ UNCHANGED <<plan, idx>>
                  ELSE /\ plan' = [plan EXCEPT ![r] = plan_value.items]
                       /\ idx' = [idx EXCEPT ![r] = 1]
                       /\ pc' = [pc EXCEPT ![r] = "exec"]
                       /\ UNCHANGED exc
    /\ UNCHANGED <<user_message, metadata, response, trace, final_text, ret, tickets, kb, api>>

PlannerDecoded(r) ==
    /\ pc[r] = "start"
    /\ \E text \in Texts : \E payload \in PayloadsOf(text) :
          PlannerDecodedAs(r, text, payload)

-----------------------------------------------------------------------------
(* execute_plan: src/src/agent.py:65-104 *)

DefaultTopK == 5

StepAction(step) == Get(step, "action", None)
StepArgs(step) == Get(step, "args", EmptyMap)
StepReason(step) == Get(step, "reason", "")

\* agent.py:72, with the result the branch stores
Entry(step, result) ==
    [action |-> StepAction(step), reason |-> StepReason(step),
     args |-> StepArgs(step), result |-> result]

\* Faulty variant: no else branch, an action outside the chain raises.
BranchRaisesOnUnknown(step) ==
    IF ~IsMapping(step) THEN "raise"
    ELSE IF StepAction(step) \in {"search_kb", "create_ticket", "http_get", "respond"}
         THEN (IF IsMapping(StepArgs(step)) THEN StepAction(step) ELSE "raise")
         ELSE "raise"

\* Which branch of the if/elif chain a step takes; "raise" when step.get or
\* args.get is applied to something that is not a dict (AttributeError).
Branch(step) ==
    IF ~IsMapping(step) THEN "raise"
    ELSE IF StepAction(step) \in {"search_kb", "create_ticket", "http_get", "respond"}
         THEN (IF IsMapping(StepArgs(step)) THEN StepAction(step) ELSE "raise")
         ELSE "unknown"

AtStep(r) == pc[r] = "exec" /\ idx[r] <= Len(plan[r])
CurrentStep(r) == plan[r][idx[r]]

\* agent.py:93 and the loop's advance
NextIndex(i) == i + 1

\* Faulty variant: `trace` is one module-level list shared by all requests.
AppendEntryShared(r, entry) ==
    /\ trace' = [q \in DOMAIN trace |-> Append(trace[q], entry)]
    /\ idx' = [idx EXCEPT ![r] = NextIndex(@)]

AppendEntry(r, entry) ==
    /\ trace' = [trace EXCEPT ![r] = Append(@, entry)]
    /\ idx' = [idx EXCEPT ![r] = NextIndex(@)]

StepSearchKb(r) ==
    /\ AtStep(r)
    /\ Branch(CurrentStep(r)) = "search_kb"
    /\ LET args  == StepArgs(CurrentStep(r))
           q     == Get(args, "query", None)
           top_k == Get(args, "top_k", DefaultTopK)
       IN  \E db_ok \in BOOLEAN :
              /\ AppendEntry(r, Entry(CurrentStep(r), search_kb(q, top_k, kb, db_ok)))
              /\ calls' = [calls EXCEPT ![r] =
                    Append(@, [fn |-> "kb.search_kb", step |-> idx[r], ok |-> db_ok])]
    /\ UNCHANGED <<pc, user_message, metadata, response, planner_text, plan, final_text, ret, exc, tickets, kb, api>>

StepCreateTicket(r) ==
    /\ AtStep(r)
    /\ Branch(CurrentStep(r)) = "create_ticket"
    /\ LET args == StepArgs(CurrentStep(r)) IN
       \E db_ok \in BOOLEAN :
          LET out == create_ticket(Get(args, "customer_name", "unknown"),
                                   Get(args, "customer_email", "unknown"),
                                   Get(args, "subject", "no-subject"),
                                   Get(args, "body", ""), tickets, db_ok)
          IN  /\ AppendEntry(r, Entry(CurrentStep(r), [ticket_id |-> out.id]))
              /\ tickets' = out.rows
              /\ calls' = [calls EXCEPT ![r] =
                    Append(@, [fn |-> "tickets.create_ticket", step |-> idx[r],
                               ok |-> db_ok])]
    /\ UNCHANGED <<pc, user_message, metadata, response, planner_text, plan, final_text, ret, exc, kb, api>>

StepHttpGet(r) ==
    /\ AtStep(r)
    /\ Branch(CurrentStep(r)) = "http_get"
    /\ LET url  == Get(StepArgs(CurrentStep(r)), "url", None)
           call == [fn |-> "http_tool.http_get", step |-> idx[r], ok |-> UrlAccepted(url)]
       IN  IF UrlAccepted(url)
           THEN \E net \in NetOutcomes :
                   /\ AppendEntry(r, Entry(CurrentStep(r), http_get(url, net)))
                   /\ calls' = [calls EXCEPT ![r] =
                         @ \o << [call EXCEPT !.ok = (net.kind = "response")],
                                 [fn |-> "requests.get", step |-> idx[r], url |-> url] >>]
           ELSE /\ AppendEntry(r, Entry(CurrentStep(r), http_get(url, [kind |-> "none"])))
                /\ calls' = [calls EXCEPT ![r] = Append(@, call)]
    /\ UNCHANGED <<pc, user_message, metadata, response, planner_text, plan, final_text, ret, exc, tickets, kb, api>>

\* Faulty variant: the first respond step of the plan keeps the reply.
StepRespondFirstWins(r) ==
    /\ AtStep(r)
    /\ Branch(CurrentStep(r)) = "respond"
    /\ LET text == Get(StepArgs(CurrentStep(r)), "text", None) IN
          /\ final_text' = [final_text EXCEPT ![r] =
                               IF @ = None THEN text ELSE @]
          /\ AppendEntry(r, Entry(CurrentStep(r), [delivered_text |-> text]))
    /\ UNCHANGED <<pc, user_message, metadata, response, planner_text, plan, ret, exc, calls, tickets, kb, api>>

StepRespond(r) ==
    /\ AtStep(r)
    /\ Branch(CurrentStep(r)) = "respond"
    /\ LET text == Get(StepArgs(CurrentStep(r)), "text", None) IN
          /\ final_text' = [final_text EXCEPT ![r] = text]
          /\ AppendEntry(r, Entry(CurrentStep(r), [delivered_text |-> text]))
    /\ UNCHANGED <<pc, user_message, metadata, response, planner_text, plan, ret, exc, calls, tickets, kb, api>>

StepUnknown(r) ==
    /\ AtStep(r)
    /\ Branch(CurrentStep(r)) = "unknown"
    /\ AppendEntry(r, Entry(CurrentStep(r),
                            [error |-> "unknown action " \o StepAction(CurrentStep(r))]))
    /\ UNCHANGED <<pc, user_message, metadata, response, planner_text, plan, final_text, ret, exc, calls,
                   tickets, kb, api>>

\* step.get / args.get on a non-dict: AttributeError leaves execute_plan.
StepRaises(r) ==
    /\ AtStep(r)
    /\ Branch(CurrentStep(r)) = "raise"
    /\ Raise(r, [type |-> "AttributeError", at |-> "execute_plan", step |-> idx[r]])
    /\ UNCHANGED <<user_message, metadata, response, planner_text, plan, idx, trace, final_text, ret, calls,
                   tickets, kb, api>>

\* Faulty variant: the reply is synthesized whether or not a step supplied one.
NeedsSynthesisAlways(text) == TRUE

\* agent.py:94
NeedsSynthesis(text) == ~Truthy(text)

LoopDone(r) == pc[r] = "exec" /\ idx[r] > Len(plan[r])

SynthCall(r, failed) ==
    [fn |-> "generate_content", purpose |-> "synthesis", failed |-> failed,
     prompt |-> [trace |-> trace[r]]]

Result(text, entries) == [final_text |-> text, trace |-> entries]

\* agent.py:94-104: the synthesis call answers `text`.
Synthesize(r) ==
    /\ LoopDone(r)
    /\ NeedsSynthesis(final_text[r])
    /\ \E text \in SynthTexts :
          LET entries == Append(trace[r], [action |-> "synthesize_reply", result |-> text])
          IN  /\ final_text' = [final_text EXCEPT ![r] = text]
              /\ trace' = [trace EXCEPT ![r] = entries]
              /\ ret' = [ret EXCEPT ![r] = Result(text, entries)]
    /\ calls' = [calls EXCEPT ![r] = Append(@, SynthCall(r, FALSE))]
    /\ pc' = [pc EXCEPT ![r] = "returned"]
    /\ UNCHANGED <<user_message, metadata, response, planner_text, plan, idx, exc, tickets, kb, api>>

\* Faulty variant: a failed synthesis call is answered with a canned reply.
SynthesisFailsWithFallback(r) ==
    /\ LoopDone(r)
    /\ NeedsSynthesis(final_text[r])
    /\ calls' = [calls EXCEPT ![r] = Append(@, SynthCall(r, TRUE))]
    /\ final_text' = [final_text EXCEPT ![r] = "We encountered an issue."]
    /\ ret' = [ret EXCEPT ![r] = Result("We encountered an issue.", trace[r])]
    /\ pc' = [pc EXCEPT ![r] = "returned"]
    /\ UNCHANGED <<user_message, metadata, response, planner_text, plan, idx, trace, exc,
                   tickets, kb, api>>

\* Faulty variant: a failed synthesis call undoes the run's ticket inserts.
SynthesisFailsRollsBack(r) ==
    /\ LoopDone(r)
    /\ NeedsSynthesis(final_text[r])
    /\ calls' = [calls EXCEPT ![r] = Append(@, SynthCall(r, TRUE))]
    /\ Raise(r, [type |-> "ModelCallError", at |-> "execute_plan"])
    /\ LET written == { j \in DOMAIN trace[r] :
                           /\ trace[r][j].action = "create_ticket"
                           /\ trace[r][j].result.ticket_id # NoneId }
       IN  tickets' = SubSeq(tickets, 1, Len(tickets) - Cardinality(written))
    /\ UNCHANGED <<user_message, metadata, response, planner_text, plan, idx, trace, final_text, ret,
                   kb, api>>

\* agent.py:101-102: the synthesis call fails.
SynthesisFails(r) ==
    /\ LoopDone(r)
    /\ NeedsSynthesis(final_text[r])
    /\ calls' = [calls EXCEPT ![r] = Append(@, SynthCall(r, TRUE))]
    /\ Raise(r, [type |-> "ModelCallError", at |-> "execute_plan"])
    /\ UNCHANGED <<user_message, metadata, response, planner_text, plan, idx, trace, final_text, ret,
                   tickets, kb, api>>

\* agent.py:94 and 104: a respond step supplied the reply.
ReturnDelivered(r) ==
    /\ LoopDone(r)
    /\ ~NeedsSynthesis(final_text[r])
    /\ ret' = [ret EXCEPT ![r] = Result(final_text[r], trace[r])]
    /\ pc' = [pc EXCEPT ![r] = "returned"]
    /\ UNCHANGED <<user_message, metadata, response, planner_text, plan, idx, trace, final_text, exc, calls,
                   tickets, kb, api>>

-----------------------------------------------------------------------------
(* POST /message: src/src/app.py:160-195 *)

MessageOut(reply, entries, session_id) ==
    [status_code |-> 200, reply |-> reply, trace |-> entries, session_id |-> session_id]

\* raise HTTPException(status_code=500, detail=...)
InternalError(detail) ==
    [status_code |-> 500, detail |-> "Failed to process message: " \o detail]

\* The one answer of a request.
Respond(r, answer) ==
    /\ response[r] = NoResponse
    /\ response' = [response EXCEPT ![r] = answer]
    /\ UNCHANGED <<user_message, metadata, planner_text, plan, idx, trace, final_text, ret,
                   exc, calls, tickets, kb, api>>

\* app.py:178: the timestamp is read as uvicorn.logging.datetime.now().  The
\* attribute is there only when that module of the installed uvicorn imports
\* datetime; where it does not, the lookup raises AttributeError before the
\* agent is called, and the handler's `except Exception` answers 500.
MessageEndpointTimestampFails(r) ==
    /\ pc[r] = "start"
    /\ Respond(r, InternalError("module 'uvicorn.logging' has no attribute 'datetime'"))
    /\ pc' = [pc EXCEPT ![r] = "responded"]

\* app.py:182-188: handle_user_message returned.
MessageEndpointReplies(r) ==
    /\ pc[r] = "returned"
    /\ Respond(r, MessageOut(ret[r].final_text, ret[r].trace, metadata[r].session_id))
    /\ UNCHANGED pc

\* app.py:190-195: handle_user_message raised.
MessageEndpointFails(r) ==
    /\ pc[r] = "raised"
    /\ Respond(r, InternalError(exc[r].type))
    /\ UNCHANGED pc

Next ==
    \E r \in DOMAIN pc :
        \/ MessageEndpointTimestampFails(r)
        \/ MessageEndpointReplies(r)
        \/ MessageEndpointFails(r)
        \/ PlannerCallFails(r)
        \/ PlannerUnparseable(r)
        \/ PlannerDecoded(r)
        \/ StepSearchKb(r)
        \/ StepCreateTicket(r)
        \/ StepHttpGet(r)
        \/ StepRespond(r)
        \/ StepUnknown(r)
        \/ StepRaises(r)
        \/ Synthesize(r)
        \/ SynthesisFails(r)
        \/ ReturnDelivered(r)

Spec == Init /\ [][Next]_vars

-----------------------------------------------------------------------------
(* Two requests in flight at once, with the same message and different     *)
(* metadata.  execute_plan's state is local to each call; the store is     *)
(* the one database file.                                                  *)

ConcurrentRequests == { 1, 2 }

ConcurrentMetadata ==
    << [customer_name |-> "Test Customer", customer_email |-> "test@example.com",
        session_id |-> "session-1"],
       [customer_name |-> "Other Customer", customer_email |-> "other@example.com",
        session_id |-> "session-2"] >>

ConcurrentPool == { S_ticket_dflt, S_search, S_respond }
ConcurrentPlans == UNION { [1..n -> ConcurrentPool] : n \in 0..MaxConcurrentPlanLen }

InitConcurrent ==
    /\ pc = [r \in ConcurrentRequests |-> "start"]
    /\ user_message = [r \in ConcurrentRequests |-> "What is your return policy?"]
    /\ metadata = ConcurrentMetadata
    /\ response = [r \in ConcurrentRequests |-> NoResponse]
    /\ planner_text = [r \in ConcurrentRequests |-> NoText]
    /\ plan = [r \in ConcurrentRequests |-> << >>]
    /\ idx = [r \in ConcurrentRequests |-> 0]
    /\ trace = [r \in ConcurrentRequests |-> << >>]
    /\ final_text = [r \in ConcurrentRequests |-> None]
    /\ ret = [r \in ConcurrentRequests |-> NoReturn]
    /\ exc = [r \in ConcurrentRequests |-> NoExc]
    /\ calls = [r \in ConcurrentRequests |-> << >>]
    /\ tickets = InitialTickets
    /\ kb = InitialKb
    /\ api = NoExchange

\* The planner model answers a well-formed object with one of the plans.
PlannerDecodedConcurrent(r) ==
    /\ pc[r] = "start"
    /\ \E payload \in ConcurrentPlans :
          PlannerDecodedAs(r, << "{", "plan", "}" >>, payload)

NextConcurrent ==
    \E r \in DOMAIN pc :
        \/ PlannerDecodedConcurrent(r)
        \/ StepSearchKb(r)
        \/ StepCreateTicket(r)
        \/ StepRespond(r)
        \/ Synthesize(r)
        \/ SynthesisFails(r)
        \/ ReturnDelivered(r)

SpecConcurrent == InitConcurrent /\ [][NextConcurrent]_vars

-----------------------------------------------------------------------------
(* Server start and the store-facing endpoints: src/src/app.py:21-36, 197-270 *)

RequestVars ==
    <<pc, user_message, metadata, response, planner_text, plan, idx, trace,
      final_text, ret, exc, calls>>

\* One call and its answer.  `called` says whether the tool function was
\* reached and `returned` is what it returned.
Exchange(endpoint, request, called, returned, answer) ==
    [endpoint |-> endpoint, request |-> request, called |-> called,
     returned |-> returned, status_code |-> answer.status_code, body |-> answer.body]

Ok(body) == [status_code |-> 200, body |-> body]

\* raise HTTPException(status_code=..., detail=...)
HTTPException(status_code, detail) ==
    [status_code |-> status_code, body |-> [detail |-> detail]]

\* str(e) of an HTTPException: "<status_code>: <detail>"
StrOfHTTPException(e) ==
    CASE e.status_code = 400 -> "400: " \o e.body.detail
      [] e.status_code = 404 -> "404: " \o e.body.detail
      [] e.status_code = 500 -> "500: " \o e.body.detail

\* `except Exception as e: raise HTTPException(status_code=500, detail=str(e))`
\* around every handler body: it also catches the HTTPException the body
\* raised itself.
Caught(e) == HTTPException(500, StrOfHTTPException(e))

\* app.py:21-31: the server starts and runs init_db on the database file.
lifespan ==
    /\ Len(tickets) < MaxTickets
    /\ LET db == init_db(tickets, kb) IN
          /\ tickets' = db.tickets
          /\ kb' = db.kb
    /\ api' = Exchange("startup", EmptyMap, TRUE, TRUE, Ok(EmptyMap))
    /\ UNCHANGED RequestVars

TopKCap == 20

\* GET /kb/search?q=..&top_k=..
search_knowledge_base(q, top_k) ==
    /\ \E db_ok \in BOOLEAN :
          LET results == search_kb(q, Min(top_k, TopKCap), kb, db_ok) IN
          api' = Exchange("GET /kb/search", [q |-> q, top_k |-> top_k], TRUE, results,
                          Ok([query |-> q, results |-> results]))
    /\ UNCHANGED <<tickets, kb>>
    /\ UNCHANGED RequestVars

\* GET /tickets
list_tickets ==
    /\ \E db_ok \in BOOLEAN :
          LET open == list_open_tickets(tickets, db_ok) IN
          api' = Exchange("GET /tickets", EmptyMap, TRUE, open, Ok([tickets |-> open]))
    /\ UNCHANGED <<tickets, kb>>
    /\ UNCHANGED RequestVars

\* POST /tickets with the JSON object `ticket`
create_ticket_endpoint(ticket) ==
    /\ Len(tickets) < MaxTickets
    /\ \E db_ok \in BOOLEAN :
          LET out == create_ticket(Get(ticket, "customer_name", "Unknown"),
                                   Get(ticket, "customer_email", ""),
                                   Get(ticket, "subject", "No Subject"),
                                   Get(ticket, "body", ""), tickets, db_ok)
          IN  /\ tickets' = out.rows
              /\ api' = Exchange("POST /tickets", ticket, TRUE, out.id,
                           IF out.id # NoneId
                           THEN Ok([ticket_id |-> out.id, status |-> "created"])
                           ELSE Caught(HTTPException(400, "Failed to create ticket")))
    /\ UNCHANGED kb
    /\ UNCHANGED RequestVars

\* PUT /tickets/{ticket_id} with the JSON object `update_data`
update_ticket(ticket_id, update_data) ==
    /\ LET new_status == Get(update_data, "status", None)
           request    == [ticket_id |-> ticket_id, update_data |-> update_data]
       IN  IF Truthy(new_status)
           THEN \E db_ok \in BOOLEAN :
                   LET out == update_ticket_status(ticket_id, new_status, tickets, db_ok)
                   IN  /\ tickets' = out.rows
                       /\ api' = Exchange("PUT /tickets", request, TRUE, out.ok,
                                    IF out.ok
                                    THEN Ok([ticket_id |-> ticket_id, status |-> new_status,
                                             updated |-> TRUE])
                                    ELSE Caught(HTTPException(404, "Ticket not found")))
           ELSE /\ tickets' = tickets
                /\ api' = Exchange("PUT /tickets", request, FALSE, FALSE,
                                   Caught(HTTPException(400, "Status is required")))
    /\ UNCHANGED kb
    /\ UNCHANGED RequestVars

\* the keywords the handler of POST /kb passes to add_kb_entry
add_knowledge_base_entry_keywords == {"title", "content", "category", "tags"}

\* POST /kb with the JSON object `entry`
add_knowledge_base_entry(entry) ==
    /\ IF add_knowledge_base_entry_keywords \subseteq add_kb_entry_params
       THEN \E db_ok \in BOOLEAN :
               LET out == add_kb_entry(Get(entry, "title", ""), Get(entry, "content", ""),
                                       kb, db_ok)
               IN  /\ kb' = out.rows
                   /\ api' = Exchange("POST /kb", entry, TRUE, out.ok,
                                IF out.ok
                                THEN Ok([status |-> "added", title |-> Get(entry, "title", None)])
                                ELSE Caught(HTTPException(400, "Failed to add KB entry")))
       ELSE \* TypeError at the call, caught by the handler
            /\ kb' = kb
            /\ api' = Exchange("POST /kb", entry, FALSE, FALSE,
                          HTTPException(500, "add_kb_entry() got an unexpected keyword argument 'category'"))
    /\ UNCHANGED tickets
    /\ UNCHANGED RequestVars

\* tools.kb.add_kb_entry(title, content) called as the function is declared
\* (src/test_comprehensive.py:77 imports it so).
add_kb_entry_call(title, content) ==
    /\ Len(kb) < Len(kb_samples) + MaxKbAdded
    /\ \E db_ok \in BOOLEAN :
          LET out == add_kb_entry(title, content, kb, db_ok) IN
             /\ kb' = out.rows
             /\ api' = Exchange("tools.kb.add_kb_entry", [title |-> title, content |-> content],
                                TRUE, out.ok, Ok(EmptyMap))
    /\ UNCHANGED tickets
    /\ UNCHANGED RequestVars

(* Inputs of the endpoints *)

T_full ==
    [customer_name |-> " Ann ", customer_email |-> "ann@example.com",
     subject |-> "Refund", body |-> "Where is my refund?"]
T_blank_name ==
    [customer_name |-> " ", customer_email |-> "ann@example.com",
     subject |-> "Refund", body |-> "Where is my refund?"]
T_no_email == [customer_name |-> "Ann", subject |-> "Refund"]
TicketBodies == { T_full, T_blank_name, T_no_email }

TicketIds == 1..(MaxTickets + 1)
\* statuses a client sends: three the CHECK constraint accepts, one it rejects
StatusInputs == {"open", "in_progress", "closed", "done"}
UpdateBodies == { [status |-> st] : st \in StatusInputs } \cup { EmptyMap }

E_holiday ==
    [title |-> "Holiday Policy", content |-> "Holiday purchases can be returned ...",
     category |-> "Policies", tags |-> "holiday return"]
KbEntries == { E_holiday, EmptyMap }

Queries == {"policy", "holiday", ""}
TopKs == {-1, 0, 5, 20, 25}

\* The ticket endpoints of a server that is restarted now and then.
NextTickets ==
    \/ lifespan
    \/ list_tickets
    \/ \E ticket \in TicketBodies : create_ticket_endpoint(ticket)
    \/ \E ticket_id \in TicketIds : \E update_data \in UpdateBodies :
          update_ticket(ticket_id, update_data)

SpecTickets == Init /\ [][NextTickets]_vars

\* The knowledge-base endpoints of a server that is restarted now and then.
NextKb ==
    \/ lifespan
    \/ \E q \in Queries : \E top_k \in TopKs : search_knowledge_base(q, top_k)
    \/ \E entry \in KbEntries : add_knowledge_base_entry(entry)
    \/ add_kb_entry_call(E_holiday.title, E_holiday.content)

SpecKb == Init /\ [][NextKb]_vars

-----------------------------------------------------------------------------
(* Vocabulary of the properties *)

Returned(r) == pc[r] = "returned"

\* execute_plan was given a list and has ended, by return or by an exception.
ExecutePlanEnded(r) ==
    \/ pc[r] = "returned"
    \/ pc[r] = "raised" /\ exc[r].at = "execute_plan" /\ idx[r] >= 1

IsRespondStep(step) == IsMapping(step) /\ StepAction(step) = "respond"
RespondSteps(p) == { i \in DOMAIN p : IsRespondStep(p[i]) }
RespondText(step) == Get(StepArgs(step), "text", None)
LastOf(S) == CHOOSE i \in S : \A j \in S : j <= i

IsSynthCall(c) == c.fn = "generate_content" /\ c.purpose = "synthesis"
SynthCalls(r) == { i \in DOMAIN calls[r] : IsSynthCall(calls[r][i]) }
SynthEntries(entries) == { i \in DOMAIN entries : entries[i].action = "synthesize_reply" }
CallsOf(r, fn) == { i \in DOMAIN calls[r] : calls[r][i].fn = fn }
StepsWith(p, action) == { i \in DOMAIN p : IsMapping(p[i]) /\ StepAction(p[i]) = action }

\* a trace entry repeats the step's action, args and reason
Echoes(entry, step) ==
    /\ entry.action = StepAction(step)
    /\ entry.args = StepArgs(step)
    /\ entry.reason = StepReason(step)

\* A step on which step.get / args.get cannot be called.
Malformed(step) ==
    \/ ~IsMapping(step)
    \/ /\ StepAction(step) \in {"search_kb", "create_ticket", "http_get", "respond"}
       /\ ~IsMapping(StepArgs(step))

-----------------------------------------------------------------------------
(* C1 *)

\* C1: whenever a result is returned it has the keys final_text and trace and
\* its final_text is a non-empty string.
C1_FinalTextNonEmpty ==
    \A r \in DOMAIN pc :
        Returned(r) =>
            /\ DOMAIN ret[r] = {"final_text", "trace"}
            /\ ret[r].final_text # None
            /\ ret[r].final_text # ""

\* What does hold: the result has both keys, and an empty final_text is
\* exactly the synthesis model's empty answer.
C1_EmptyOnlyFromSynthesis ==
    \A r \in DOMAIN pc :
        Returned(r) =>
            /\ DOMAIN ret[r] = {"final_text", "trace"}
            /\ ret[r].final_text # None
            /\ ret[r].final_text = "" => SynthCalls(r) # {}

-----------------------------------------------------------------------------
(* C2 *)

-----------------------------------------------------------------------------
(* C3 *)

\* C3: when execute_plan has ended, every step of the plan, in plan order,
\* has its trace entry echoing its action, args and reason: no step is
\* skipped, whatever happened to the steps before it.
C3_EveryStepTracedInOrder ==
    \A r \in DOMAIN pc :
        ExecutePlanEnded(r) =>
            \A i \in DOMAIN plan[r] :
                /\ i <= Len(trace[r])
                /\ Echoes(trace[r][i], plan[r][i])

\* What does hold: the entries written so far echo the steps in plan order,
\* one per step, and the only thing that cuts the loop short is a step on
\* which .get cannot be called.
C3_InOrderUntilMalformedStep ==
    \A r \in DOMAIN pc :
        /\ pc[r] = "exec" => Len(trace[r]) = idx[r] - 1
        /\ \A i \in DOMAIN plan[r] : i < idx[r] => Echoes(trace[r][i], plan[r][i])
        /\ ExecutePlanEnded(r) =>
              \/ idx[r] = Len(plan[r]) + 1
              \/ /\ pc[r] = "raised"
                 /\ exc[r].type = "AttributeError"
                 /\ Malformed(plan[r][idx[r]])

-----------------------------------------------------------------------------
(* C4 *)

ToolFns == {"kb.search_kb", "tickets.create_ticket", "http_tool.http_get"}
FailedToolCalls(r) ==
    { i \in DOMAIN calls[r] : calls[r][i].fn \in ToolFns /\ ~calls[r][i].ok }

\* the result each tool gives for a failure
IsFailureResult(fn, result) ==
    CASE fn = "kb.search_kb" -> result = << >>
      [] fn = "tickets.create_ticket" -> result = [ticket_id |-> NoneId]
      [] fn = "http_tool.http_get" ->
            /\ result.success = FALSE
            /\ result.error # None
            /\ result.status_code = 0

\* step j was taken up by the loop: traced, or raised on
StepReached(r, j) ==
    \/ j <= Len(trace[r]) /\ j < idx[r]
    \/ j = idx[r] /\ pc[r] = "raised" /\ exc[r].at = "execute_plan"
          /\ exc[r].type = "AttributeError"

\* C4: a tool failure in a step (store error, network error, invalid URL)
\* does not leave execute_plan as an exception: the step's trace entry holds
\* the tool's failure result, and when execute_plan has ended every later
\* step of the plan has been executed.
C4_ToolFailureNeverStopsLaterSteps ==
    \A r \in DOMAIN pc :
        \A c \in FailedToolCalls(r) :
            LET i == calls[r][c].step IN
            /\ i <= Len(trace[r])
            /\ IsFailureResult(calls[r][c].fn, trace[r][i].result)
            /\ ExecutePlanEnded(r) =>
                 \A j \in (i + 1)..Len(plan[r]) : StepReached(r, j)

\* What does hold: the failure is recorded in the step's entry, the loop goes
\* on with the next step, and an exception of the run comes from a model
\* call or from a later step on which .get cannot be called, never from the
\* tool.
C4_ToolFailureStaysInTrace ==
    \A r \in DOMAIN pc :
        \A c \in FailedToolCalls(r) :
            LET i == calls[r][c].step IN
            /\ i <= Len(trace[r])
            /\ Echoes(trace[r][i], plan[r][i])
            /\ IsFailureResult(calls[r][c].fn, trace[r][i].result)
            /\ idx[r] > i
            /\ pc[r] = "raised" =>
                 \/ exc[r].type = "ModelCallError"
                 \/ /\ exc[r].type = "AttributeError"
                    /\ exc[r].step > i
                    /\ Malformed(plan[r][exc[r].step])
            /\ Returned(r) => Len(ret[r].trace) >= Len(plan[r])

-----------------------------------------------------------------------------
(* C5 *)

KnownActions == {"search_kb", "create_ticket", "http_get", "respond"}
IsUnknownActionStep(step) == IsMapping(step) /\ StepAction(step) \notin KnownActions

\* C5: a step whose action is missing or not one of the four known ones
\* never raises and calls no tool; once dispatched its entry's result is
\* {error: "unknown action <name>"} and the next step is up.
C5_UnknownActionRecorded ==
    \A r \in DOMAIN pc :
        \A i \in DOMAIN plan[r] :
            IsUnknownActionStep(plan[r][i]) =>
                /\ ~(pc[r] = "raised" /\ exc[r].at = "execute_plan" /\ idx[r] = i)
                /\ \A c \in DOMAIN calls[r] :
                      calls[r][c].fn = "generate_content" \/ calls[r][c].step # i
                /\ i <= Len(trace[r]) =>
                      /\ trace[r][i].result =
                            [error |-> "unknown action " \o StepAction(plan[r][i])]
                      /\ Echoes(trace[r][i], plan[r][i])
                      /\ idx[r] > i
                /\ (Returned(r) /\ RespondSteps(plan[r]) = {}) =>
                      Len(ret[r].trace) = Len(plan[r]) + 1

\* an unknown action and a step without action, each followed by a tool step
\* that ran
C5_Witness ==
    \E r \in DOMAIN pc :
        /\ Returned(r)
        /\ Len(plan[r]) = 3
        /\ IsUnknownActionStep(plan[r][1])
        /\ trace[r][1].action = "frobnicate"
        /\ trace[r][1].result = [error |-> "unknown action frobnicate"]
        /\ IsUnknownActionStep(plan[r][2])
        /\ trace[r][2].action = None
        /\ trace[r][2].result = [error |-> "unknown action None"]
        /\ CallsOf(r, "tickets.create_ticket") # {}

-----------------------------------------------------------------------------
(* C6 *)

\* C6: no raw step descriptor makes execute_plan raise: the only exceptions
\* that leave it are failed model calls.
C6_MalformedStepNeverAborts ==
    \A r \in DOMAIN pc :
        (pc[r] = "raised" /\ exc[r].at = "execute_plan" /\ idx[r] >= 1) =>
            exc[r].type = "ModelCallError"

\* What does hold: a descriptor that lacks action, args or reason, or single
\* arguments, is defaulted and traced; the ones that abort are those on
\* which .get cannot be called (not an object, or args not a mapping for a
\* known action).
C6_AbortOnlyWhereGetFails ==
    \A r \in DOMAIN pc :
        (pc[r] = "raised" /\ exc[r].at = "execute_plan" /\ idx[r] >= 1
            /\ exc[r].type # "ModelCallError") =>
            /\ exc[r].type = "AttributeError"
            /\ Malformed(plan[r][idx[r]])
            /\ Len(trace[r]) = idx[r] - 1

-----------------------------------------------------------------------------
(* C7 *)

\* the returned trace is the plan's entries followed by one synthesize_reply
\* entry whose result is the returned final_text
EndsWithSynthesis(r) ==
    LET n == Len(plan[r]) IN
    /\ Len(ret[r].trace) = n + 1
    /\ SynthEntries(ret[r].trace) = {n + 1}
    /\ \A i \in 1..n : Echoes(ret[r].trace[i], plan[r][i])
    /\ ret[r].final_text = ret[r].trace[n + 1].result

\* the synthesis call was made with every plan step already traced
SynthesisAfterAllSteps(r) ==
    \A c \in SynthCalls(r) :
        /\ c = Len(calls[r])
        /\ Len(calls[r][c].prompt.trace) = Len(plan[r])

\* C7: once execute_plan has ended on a plan with no respond step, it has
\* made exactly one synthesis call, after every step was executed, and a
\* returned trace is the plan's entries followed by the synthesize_reply
\* entry whose result is final_text.
C7_NoRespondSynthesizesOnce ==
    \A r \in DOMAIN pc :
        (ExecutePlanEnded(r) /\ RespondSteps(plan[r]) = {}) =>
            /\ Cardinality(SynthCalls(r)) = 1
            /\ SynthesisAfterAllSteps(r)
            /\ Returned(r) => EndsWithSynthesis(r)

\* What does hold: the same, for the runs that got through the loop.
C7_SynthesizesOnceAfterLoop ==
    \A r \in DOMAIN pc :
        RespondSteps(plan[r]) = {} =>
            /\ Cardinality(SynthCalls(r)) <= 1
            /\ SynthesisAfterAllSteps(r)
            /\ LoopDone(r) => NeedsSynthesis(final_text[r])
            /\ (ExecutePlanEnded(r) /\ idx[r] = Len(plan[r]) + 1) =>
                  Cardinality(SynthCalls(r)) = 1
            /\ Returned(r) => EndsWithSynthesis(r)

-----------------------------------------------------------------------------
(* C8 *)

\* neither the strict parse nor the fallback extraction decodes the text
Unparseable(t) ==
    /\ ~json_loads(t.text, t.payload).ok
    /\ LET m == re_search(t.text, t.payload) IN
          m.found => ~json_loads_group(t.text, t.payload, m).ok

Answered(r) == planner_text[r] # NoText

\* C8: when the planner's text is unparseable, the request ends with the
\* planner's RuntimeError after one planner call and nothing else: no tool
\* call, no ticket row, no HTTP request, no synthesis call, no trace, no
\* result.
C8_UnparseablePlanIsFatal ==
    \A r \in DOMAIN pc :
        (Answered(r) /\ Unparseable(planner_text[r])) =>
            /\ pc[r] = "raised"
            /\ exc[r] = [type |-> "RuntimeError", at |-> "call_gemini_planner"]
            /\ Len(calls[r]) = 1
            /\ calls[r][1].fn = "generate_content"
            /\ calls[r][1].purpose = "plan"
            /\ tickets = InitialTickets
            /\ trace[r] = << >>
            /\ ret[r] = NoReturn

\* prose around a brace pair that holds no JSON: the fallback finds a match
\* and fails to decode it
C8_Witness ==
    \E r \in DOMAIN pc :
        /\ pc[r] = "raised"
        /\ Answered(r)
        /\ planner_text[r].text = << "prose", "{", "prose", "}" >>
        /\ re_search(planner_text[r].text, planner_text[r].payload).found
        /\ Unparseable(planner_text[r])

-----------------------------------------------------------------------------
(* C9 *)

FailedSynthCalls(r) == { c \in SynthCalls(r) : calls[r][c].failed }

\* C9: when the synthesis call fails, execute_plan raises: nothing is
\* returned (no final_text, no trace), no reply is substituted, and the call
\* is not repeated.
C9_SynthesisFailureIsFatal ==
    \A r \in DOMAIN pc :
        FailedSynthCalls(r) # {} =>
            /\ pc[r] = "raised"
            /\ exc[r] = [type |-> "ModelCallError", at |-> "execute_plan"]
            /\ ret[r] = NoReturn
            /\ ~Truthy(final_text[r])
            /\ SynthEntries(trace[r]) = {}
            /\ Cardinality(SynthCalls(r)) = 1
            /\ FailedSynthCalls(r) = {Len(calls[r])}

\* the synthesis call fails after two steps were traced and a ticket written
C9_Witness ==
    \E r \in DOMAIN pc :
        /\ FailedSynthCalls(r) # {}
        /\ pc[r] = "raised"
        /\ Len(trace[r]) >= 2
        /\ Len(tickets) > Len(InitialTickets)

-----------------------------------------------------------------------------
(* C10 *)

ToolOfAction(action) ==
    CASE action = "search_kb" -> "kb.search_kb"
      [] action = "create_ticket" -> "tickets.create_ticket"
      [] action = "http_get" -> "http_tool.http_get"

\* C10: when execute_plan has ended, each tool was called once per plan step
\* with that action: as many search_kb, create_ticket and http_get calls as
\* the plan has steps of each, none repeated, none merged, none left out.
C10_OneToolCallPerStep ==
    \A r \in DOMAIN pc :
        ExecutePlanEnded(r) =>
            \A action \in TOOLS :
                /\ Cardinality(CallsOf(r, ToolOfAction(action)))
                      = Cardinality(StepsWith(plan[r], action))
                /\ \A i \in StepsWith(plan[r], action) :
                      Cardinality({ c \in CallsOf(r, ToolOfAction(action)) :
                                       calls[r][c].step = i }) = 1

\* What does hold: every step that was dispatched called its tool exactly
\* once, identical steps each made their own call and their own insert, and
\* no step is called for twice.
C10_OneToolCallPerDispatchedStep ==
    \A r \in DOMAIN pc :
        \A action \in TOOLS :
            /\ \A i \in StepsWith(plan[r], action) :
                  Cardinality({ c \in CallsOf(r, ToolOfAction(action)) :
                                   calls[r][c].step = i })
                     = (IF i <= Len(trace[r]) /\ i < idx[r] THEN 1 ELSE 0)
            /\ \A c \in CallsOf(r, ToolOfAction(action)) :
                  calls[r][c].step \in StepsWith(plan[r], action)

-----------------------------------------------------------------------------
(* C11 *)

IsSearchStep(step) == IsMapping(step) /\ StepAction(step) = "search_kb"
SearchOnly(p) == Len(p) >= 1 /\ \A i \in DOMAIN p : IsSearchStep(p[i])
TopKOf(step) == Get(StepArgs(step), "top_k", DefaultTopK)

\* C11: for a plan made only of search_kb steps the returned trace has as
\* many entries as the plan has steps, and the i-th entry's result is a list
\* of at most top_k items, top_k being the step's own or 5 when absent.
C11_SearchOnlyTraceBounded ==
    \A r \in DOMAIN pc :
        (Returned(r) /\ SearchOnly(plan[r])) =>
            /\ Len(ret[r].trace) = Len(plan[r])
            /\ \A i \in DOMAIN plan[r] :
                  Len(ret[r].trace[i].result) <= TopKOf(plan[r][i])

\* What does hold: the returned trace is one entry per step followed by the
\* synthesize_reply entry, and a step whose top_k is not negative gets at
\* most top_k items.
C11_BoundedWhenTopKNotNegative ==
    \A r \in DOMAIN pc :
        (Returned(r) /\ SearchOnly(plan[r])) =>
            /\ Len(ret[r].trace) = Len(plan[r]) + 1
            /\ \A i \in DOMAIN plan[r] :
                  TopKOf(plan[r][i]) >= 0 =>
                      Len(ret[r].trace[i].result) <= TopKOf(plan[r][i])

-----------------------------------------------------------------------------
(* C12 *)

TraceEntryFields == {"action", "reason", "args", "result"}

\* C12: every entry of a returned trace carries the four fields action,
\* reason, args and result, the entry appended after synthesis included.
C12_EveryEntryHasFourFields ==
    \A r \in DOMAIN pc :
        Returned(r) =>
            \A i \in DOMAIN ret[r].trace :
                DOMAIN ret[r].trace[i] = TraceEntryFields

\* What does hold: the entries of the plan's steps carry the four fields; the
\* synthesize_reply entry carries action and result only.
C12_StepEntriesHaveFourFields ==
    \A r \in DOMAIN pc :
        \A i \in DOMAIN trace[r] :
            IF trace[r][i].action = "synthesize_reply" /\ i > Len(plan[r])
            THEN DOMAIN trace[r][i] = {"action", "result"}
            ELSE DOMAIN trace[r][i] = TraceEntryFields

-----------------------------------------------------------------------------
(* C13 *)

IsEmptyNameTicketStep(step) ==
    /\ IsMapping(step)
    /\ StepAction(step) = "create_ticket"
    /\ IsMapping(StepArgs(step))
    /\ "customer_name" \in DOMAIN StepArgs(step)
    /\ StepArgs(step).customer_name = ""

\* C13: executing a create_ticket step whose customer_name is "" raises
\* nothing, inserts no row, appends the entry with result {ticket_id: null},
\* and leaves execute_plan at the next step.
C13_EmptyNameTicketReturnsNone ==
    [][ \A r \in DOMAIN pc :
          (/\ AtStep(r)
           /\ IsEmptyNameTicketStep(CurrentStep(r))
           /\ <<pc[r], idx[r], trace[r]>>' # <<pc[r], idx[r], trace[r]>>)
          => /\ tickets' = tickets
             /\ exc'[r] = NoExc
             /\ pc'[r] = "exec"
             /\ idx'[r] = idx[r] + 1
             /\ trace'[r] = Append(trace[r],
                                   Entry(CurrentStep(r), [ticket_id |-> NoneId])) ]_vars

\* The store was reachable, the step's entry shows no ticket id, the table
\* is as seeded, and the step after it has been executed as well.
C13_Witness ==
    \E r \in DOMAIN pc : \E i \in DOMAIN plan[r] :
        /\ IsEmptyNameTicketStep(plan[r][i])
        /\ i + 1 <= Len(trace[r])
        /\ trace[r][i].result = [ticket_id |-> NoneId]
        /\ \E c \in CallsOf(r, "tickets.create_ticket") :
              calls[r][c].step = i /\ calls[r][c].ok
        /\ tickets = InitialTickets

-----------------------------------------------------------------------------
(* C14 *)

IsHttpStep(step) ==
    IsMapping(step) /\ StepAction(step) = "http_get" /\ IsMapping(StepArgs(step))
UrlOf(step) == Get(StepArgs(step), "url", None)
HasHttpPrefix(url) == IsStr(url) /\ StartsWithHttp(url)
NetworkRequests(r, i) ==
    { c \in CallsOf(r, "requests.get") : calls[r][c].step = i }

\* C14: an executed http_get step whose url does not start with http:// or
\* https:// (missing, null, empty, not a string, or another scheme) has the
\* result success = false with error "Invalid URL format", and no network
\* request was made for it.
C14_BadUrlIsInvalidUrlFormat ==
    \A r \in DOMAIN pc : \A i \in DOMAIN trace[r] :
        (i <= Len(plan[r]) /\ IsHttpStep(plan[r][i]) /\ ~HasHttpPrefix(UrlOf(plan[r][i])))
        => /\ trace[r][i].result.success = FALSE
           /\ trace[r][i].result.error = "Invalid URL format"
           /\ NetworkRequests(r, i) = {}

\* What does hold: such a url never reaches the network and the result is a
\* failure; the error is "Invalid URL format" when the url is a string or
\* is missing or null.
C14_BadUrlNeverRequested ==
    \A r \in DOMAIN pc : \A i \in DOMAIN trace[r] :
        (i <= Len(plan[r]) /\ IsHttpStep(plan[r][i]) /\ ~HasHttpPrefix(UrlOf(plan[r][i])))
        => /\ trace[r][i].result.success = FALSE
           /\ NetworkRequests(r, i) = {}
           /\ UrlOf(plan[r][i]) \notin NonStrings
                 => trace[r][i].result.error = "Invalid URL format"

-----------------------------------------------------------------------------
(* C15 *)

HttpResultFields == {"success", "status_code", "text", "headers", "error"}
HttpEntries(r) ==
    { i \in DOMAIN trace[r] : i <= Len(plan[r]) /\ IsHttpStep(plan[r][i]) }

\* C15: every value http_get returned, on success and on failure, has the
\* five fields success, status_code, text, headers and error, and its text
\* is at most 4000 characters long.
C15_HttpResultHasFiveFields ==
    \A r \in DOMAIN pc : \A i \in HttpEntries(r) :
        /\ DOMAIN trace[r][i].result = HttpResultFields
        /\ trace[r][i].result.text <= TextLimit

\* What does hold: success, status_code, text and error are always there,
\* text is at most 4000 characters long, and headers is there exactly on
\* success.
C15_HeadersOnlyOnSuccess ==
    \A r \in DOMAIN pc : \A i \in HttpEntries(r) :
        /\ HttpResultFields \ {"headers"} \subseteq DOMAIN trace[r][i].result
        /\ DOMAIN trace[r][i].result \subseteq HttpResultFields
        /\ trace[r][i].result.text <= TextLimit
        /\ "headers" \in DOMAIN trace[r][i].result <=> trace[r][i].result.success

-----------------------------------------------------------------------------
(* C16 *)

ToolCallIndexes(r) == { c \in DOMAIN calls[r] : calls[r][c].fn \in ToolFns }

\* Two finished invocations that were given the same message, the same
\* planner answer, the same synthesis answer, the same outcome of every
\* store access, and the store as seeded.
SameRunExceptMetadata(r1, r2) ==
    /\ Returned(r1) /\ Returned(r2)
    /\ user_message[r1] = user_message[r2]
    /\ planner_text[r1] = planner_text[r2]
    /\ tickets = InitialTickets
    /\ \A c1 \in ToolCallIndexes(r1) : \A c2 \in ToolCallIndexes(r2) :
          calls[r1][c1].step = calls[r2][c2].step
             => calls[r1][c1].ok = calls[r2][c2].ok
    /\ (SynthCalls(r1) # {} /\ SynthCalls(r2) # {}) => final_text[r1] = final_text[r2]

MetadataValues ==
    { metadata[r].customer_name : r \in DOMAIN pc } \cup
    { metadata[r].customer_email : r \in DOMAIN pc } \cup
    { metadata[r].session_id : r \in DOMAIN pc }

\* C16: two invocations with the same message and different metadata, run
\* against the same model answers and the same store, made the same calls
\* (the same planner prompt, the same tool calls, the same synthesis prompt)
\* and returned the same final_text and trace; and no value of the metadata
\* is ever written to the store.
C16_MetadataHasNoInfluence ==
    /\ \A r1 \in DOMAIN pc : \A r2 \in DOMAIN pc :
          SameRunExceptMetadata(r1, r2) =>
              /\ calls[r1] = calls[r2]
              /\ ret[r1] = ret[r2]
    /\ \A i \in DOMAIN tickets :
          /\ tickets[i].customer_name \notin MetadataValues
          /\ tickets[i].customer_email \notin MetadataValues

\* Both invocations ran a plan with a search and a ticket step to the end,
\* under different metadata.
C16_Witness ==
    /\ DOMAIN pc = ConcurrentRequests
    /\ SameRunExceptMetadata(1, 2)
    /\ metadata[1] # metadata[2]
    /\ StepsWith(plan[1], "search_kb") # {}
    /\ StepsWith(plan[1], "create_ticket") # {}
    /\ SynthCalls(1) # {}

-----------------------------------------------------------------------------
(* C17 *)

\* The result a step's entry holds is made of the step itself and of the
\* store: nothing of another request's plan or trace.
OwnResult(r, i) ==
    LET step == plan[r][i]
        result == trace[r][i].result
    IN  CASE StepAction(step) = "respond" ->
                result = [delivered_text |-> RespondText(step)]
          [] StepAction(step) = "search_kb" ->
                \E db_ok \in BOOLEAN :
                    result = search_kb(Get(StepArgs(step), "query", None),
                                       TopKOf(step), kb, db_ok)
          [] StepAction(step) = "create_ticket" ->
                \/ result = [ticket_id |-> NoneId]
                \/ \E t \in DOMAIN tickets : result = [ticket_id |-> tickets[t].id]
          [] OTHER -> TRUE

\* C17: under every interleaving of two invocations, each one's trace holds
\* the entries of its own plan in its own plan order, a returned trace is
\* those entries followed at most by its own synthesize_reply entry, and the
\* returned final_text is its own respond step's text or the answer of its
\* own synthesis call.
C17_ConcurrentRequestsIndependent ==
    \A r \in DOMAIN pc :
        /\ Len(trace[r]) <= Len(plan[r]) + 1
        /\ \A i \in DOMAIN trace[r] :
              i <= Len(plan[r]) => Echoes(trace[r][i], plan[r][i]) /\ OwnResult(r, i)
        /\ Returned(r) =>
              LET n == Len(plan[r]) IN
              /\ ret[r].trace = trace[r]
              /\ IF SynthCalls(r) = {}
                 THEN /\ Len(trace[r]) = n
                      /\ RespondSteps(plan[r]) # {}
                      /\ ret[r].final_text = RespondText(plan[r][LastOf(RespondSteps(plan[r]))])
                 ELSE /\ Len(trace[r]) = n + 1
                      /\ Cardinality(SynthCalls(r)) = 1
                      /\ trace[r][n + 1] =
                            [action |-> "synthesize_reply", result |-> ret[r].final_text]

\* Both invocations have returned, their plans differ, and their steps were
\* interleaved: the tickets of request 1 are the second and the fourth row,
\* the ticket of request 2 is the third.
C17_Witness ==
    /\ DOMAIN pc = ConcurrentRequests
    /\ Returned(1) /\ Returned(2)
    /\ plan[1] = << S_ticket_dflt, S_ticket_dflt >>
    /\ plan[2] = << S_ticket_dflt, S_respond >>
    /\ ret[1].trace[1].result = [ticket_id |-> 2]
    /\ ret[2].trace[1].result = [ticket_id |-> 3]
    /\ ret[1].trace[2].result = [ticket_id |-> 4]

-----------------------------------------------------------------------------
(* C18 *)

\* Two executed search_kb steps of one plan with the same query and top_k.
SameSearches(r, i, j) ==
    /\ i < j /\ j <= Len(trace[r]) /\ j <= Len(plan[r])
    /\ IsSearchStep(plan[r][i]) /\ IsSearchStep(plan[r][j])
    /\ StepArgs(plan[r][i]) = StepArgs(plan[r][j])

SearchReachedStore(r, i) ==
    \E c \in CallsOf(r, "kb.search_kb") : calls[r][c].step = i /\ calls[r][c].ok

-----------------------------------------------------------------------------
(* C19 *)

\* The JSON object that starts at token i of the text, if one does: an
\* object spelled with its own braces, or the first step object inside a
\* "plan" member.
ObjectAt(text, payload, i) ==
    IF text[i] = "{"
    THEN IF i + 1 <= Len(text) /\ text[i + 1] = "}" THEN Decoded(EmptyMap)
         ELSE IF i + 2 <= Len(text) /\ text[i + 2] = "}"
              THEN json_loads(SubSeq(text, i, i + 2), payload)
              ELSE Undecodable
    ELSE IF text[i] = "plan" /\ ObjectSteps(payload) # {}
         THEN Decoded(payload[CHOOSE k \in ObjectSteps(payload) :
                                 \A l \in ObjectSteps(payload) : k <= l])
         ELSE Undecodable

ObjectStarts(text, payload) == { i \in DOMAIN text : ObjectAt(text, payload, i).ok }

\* The first brace-delimited JSON object found in the text.
FirstObject(text, payload) ==
    ObjectAt(text, payload,
             CHOOSE i \in ObjectStarts(text, payload) :
                 \A j \in ObjectStarts(text, payload) : i <= j)

\* What C19 says call_gemini_planner does with a text.
TwoStageDecode(text, payload) ==
    IF json_loads(text, payload).ok
    THEN [raised |-> FALSE, value |-> json_loads(text, payload).value]
    ELSE IF ObjectStarts(text, payload) # {}
         THEN [raised |-> FALSE, value |-> FirstObject(text, payload).value]
         ELSE [raised |-> TRUE, value |-> EmptyMap]

CalledPlanner(r) == planner_text[r] # NoText
PlannerRaised(r) ==
    pc[r] = "raised" /\ exc[r] = [type |-> "RuntimeError", at |-> "call_gemini_planner"]

\* C19: for the text the planner model answered, call_gemini_planner returns
\* the strict parse when the whole text is JSON, otherwise the first
\* brace-delimited JSON object of the text, and raises the planner error only
\* when the text holds no such object.
C19_FallbackTakesFirstObject ==
    \A r \in DOMAIN pc :
        CalledPlanner(r) =>
            LET t == planner_text[r] IN
            /\ ParsePlannerText(t.text, t.payload) = TwoStageDecode(t.text, t.payload)
            /\ PlannerRaised(r) <=> TwoStageDecode(t.text, t.payload).raised

\* What does hold: the strict parse is returned when it succeeds; a value
\* returned by the fallback is the first brace-delimited object; the planner
\* error is raised whenever the stretch from the first opening brace to the
\* last closing brace is not one JSON object, also when the text holds one.
C19_FallbackTakesFirstToLastBrace ==
    \A r \in DOMAIN pc :
        CalledPlanner(r) =>
            LET t == planner_text[r]
                out == ParsePlannerText(t.text, t.payload)
                m == re_search(t.text, t.payload)
            IN  /\ PlannerRaised(r) <=> out.raised
                /\ json_loads(t.text, t.payload).ok => out = TwoStageDecode(t.text, t.payload)
                /\ ~out.raised => out = TwoStageDecode(t.text, t.payload)
                /\ out.raised <=>
                      /\ ~json_loads(t.text, t.payload).ok
                      /\ m.found => ~json_loads_group(t.text, t.payload, m).ok

-----------------------------------------------------------------------------
(* C20 *)

Responded(r) == response[r] # NoResponse
CoreReturned(r) == ret[r] # NoReturn
CoreRaised(r) == exc[r] # NoExc

\* C20: when POST /message has answered, then if the core returned a result
\* the answer is 200 with a non-empty reply equal to the core's final_text,
\* the core's trace and the request's session_id; and the answer is 500
\* exactly when the core raised.
C20_MessageEndpointMirrorsCore ==
    \A r \in DOMAIN pc :
        Responded(r) =>
            /\ CoreReturned(r) =>
                  /\ response[r].status_code = 200
                  /\ response[r].reply = ret[r].final_text
                  /\ response[r].reply # ""
                  /\ response[r].trace = ret[r].trace
                  /\ response[r].session_id = metadata[r].session_id
            /\ response[r].status_code = 500 <=> CoreRaised(r)

\* What does hold: a returned result is answered with 200, the core's
\* final_text (empty or not) as reply, the core's trace and the session_id;
\* a core that raised is answered with 500; and a 500 without the core
\* having raised is the failed timestamp lookup, before any model call.
C20_EndpointAnswersWhatCoreGave ==
    \A r \in DOMAIN pc :
        Responded(r) =>
            /\ CoreReturned(r) =>
                  response[r] = MessageOut(ret[r].final_text, ret[r].trace,
                                           metadata[r].session_id)
            /\ CoreRaised(r) => response[r].status_code = 500
            /\ (response[r].status_code = 500 /\ ~CoreRaised(r)) => calls[r] = << >>
            /\ CoreReturned(r) \/ response[r].status_code = 500

-----------------------------------------------------------------------------
(* C22 *)

\* step j of the plan has its own trace entry, and a create_ticket or
\* http_get step has made its tool call
Dispatched(r, j) ==
    /\ j <= Len(trace[r])
    /\ IsMapping(plan[r][j])
    /\ Echoes(trace[r][j], plan[r][j])
    /\ StepAction(plan[r][j]) \in {"create_ticket", "http_get"} =>
          \E c \in CallsOf(r, ToolOfAction(StepAction(plan[r][j]))) :
             calls[r][c].step = j

\* C22: a respond step does not end plan execution: when execute_plan has
\* ended, every step placed after a respond step has been dispatched, so it
\* has its own trace entry and a create_ticket or http_get step among them
\* has performed its tool call.
C22_StepsAfterRespondDispatched ==
    \A r \in DOMAIN pc :
        ExecutePlanEnded(r) =>
            \A i \in RespondSteps(plan[r]) :
                \A j \in (i + 1)..Len(plan[r]) : Dispatched(r, j)

\* What does hold: the respond step itself never stops the loop. A step after
\* a respond step is left out only when the run raised AttributeError on that
\* step or on a step before it, on which .get cannot be called.
C22_OnlyMalformedStepStopsLoop ==
    \A r \in DOMAIN pc :
        ExecutePlanEnded(r) =>
            \A i \in RespondSteps(plan[r]) :
                \A j \in (i + 1)..Len(plan[r]) :
                    \/ Dispatched(r, j)
                    \/ /\ pc[r] = "raised"
                       /\ exc[r].type = "AttributeError"
                       /\ idx[r] \in 1..j
                       /\ Malformed(plan[r][idx[r]])

\* A respond step that was traced hands over to the next step of the plan.
C22_RespondHandsOver ==
    [][\A r \in DOMAIN pc : StepRespond(r) =>
            /\ pc'[r] = "exec"
            /\ idx'[r] = idx[r] + 1
            /\ tickets' = tickets]_vars

\* a returned run in which a create_ticket step placed after a respond step
\* wrote its ticket
C22_TicketAfterRespond ==
    \E r \in DOMAIN pc :
        /\ Returned(r)
        /\ \E i \in RespondSteps(plan[r]) :
              \E j \in (i + 1)..Len(plan[r]) :
                 /\ StepAction(plan[r][j]) = "create_ticket"
                 /\ Dispatched(r, j)
                 /\ trace[r][j].result.ticket_id # NoneId

-----------------------------------------------------------------------------
(* C23 *)

SeveralResponds(r) == Cardinality(RespondSteps(plan[r])) >= 2
LastRespondText(r) == RespondText(plan[r][LastOf(RespondSteps(plan[r]))])

C23_EmptyLastRespondSynthesizes ==
    \E r \in DOMAIN pc :
        /\ Returned(r)
        /\ SeveralResponds(r)
        /\ ~Truthy(LastRespondText(r))
        /\ \E i \in RespondSteps(plan[r]) : Truthy(RespondText(plan[r][i]))
        /\ SynthCalls(r) # {}

-----------------------------------------------------------------------------
(* C24 *)

\* the trace entries of create_ticket steps that got a ticket id
TicketEntries(r) ==
    { j \in DOMAIN trace[r] :
         /\ trace[r][j].action = "create_ticket"
         /\ trace[r][j].result.ticket_id # NoneId }

\* the row with the id of trace entry j is in the table, with the step's
\* (or the default) customer_name
RowRemains(r, j) ==
    \E k \in DOMAIN tickets :
        /\ tickets[k].id = trace[r][j].result.ticket_id
        /\ tickets[k].customer_name =
              Strip(Get(trace[r][j].args, "customer_name", "unknown"))

\* C24: when the synthesis call raises after create_ticket steps ran, the
\* caller gets an error and no trace (nothing is returned, and the endpoint's
\* answer is status 500 without a trace member), yet every ticket row those
\* steps inserted is still in the store.
C24_NoRollbackOnSynthesisFailure ==
    \A r \in DOMAIN pc :
        FailedSynthCalls(r) # {} =>
            /\ ret[r] = NoReturn
            /\ Responded(r) =>
                 /\ response[r].status_code = 500
                 /\ "trace" \notin DOMAIN response[r]
            /\ \A j \in TicketEntries(r) : RowRemains(r, j)
            /\ Len(tickets) = Len(InitialTickets) + Cardinality(TicketEntries(r))

\* the synthesis call failed after a create_ticket step inserted a row, and
\* the endpoint has answered 500
C24_Witness ==
    \E r \in DOMAIN pc :
        /\ FailedSynthCalls(r) # {}
        /\ Responded(r)
        /\ response[r].status_code = 500
        /\ TicketEntries(r) # {}
        /\ \A j \in TicketEntries(r) : RowRemains(r, j)

-----------------------------------------------------------------------------
(* C25 *)

\* the planner's text is a JSON document
ParsesAsJson(t) == json_loads(t.text, t.payload).ok
ParsedValue(t) == json_loads(t.text, t.payload).value

\* the sequence the claim has execute_plan run for a parsed document
PlanField(value) ==
    IF IsMapping(value) /\ "plan" \in DOMAIN value /\ IsList(value.plan)
    THEN value.plan.items
    ELSE << >>

\* C25: for every planner text that parses as JSON, handle_user_message gets
\* past the planning boundary: execute_plan iterates the sequence held in the
\* plan member, the empty plan when the member is absent, and the request
\* does not end with an exception before the first step (valid JSON that is
\* not an object, or a plan member that is null, included).
C25_ParsedTextGetsPastPlanning ==
    \A r \in DOMAIN pc :
        (Answered(r) /\ ParsesAsJson(planner_text[r])) =>
            /\ idx[r] >= 1
            /\ plan[r] = PlanField(ParsedValue(planner_text[r]))

\* What does hold: a JSON object whose plan member is a list or is absent gets
\* past the boundary, an absent member being the empty plan, which ends in the
\* synthesis call; a document that is not an object raises AttributeError in
\* handle_user_message and a null plan member raises TypeError in
\* execute_plan, both before any step.
C25_OnlyObjectsWithListPlanGetPast ==
    \A r \in DOMAIN pc :
        (Answered(r) /\ ParsesAsJson(planner_text[r])) =>
            LET value == ParsedValue(planner_text[r]) IN
            IF ~IsMapping(value)
            THEN /\ pc[r] = "raised"
                 /\ exc[r] = [type |-> "AttributeError", at |-> "handle_user_message"]
                 /\ idx[r] = 0
            ELSE IF "plan" \in DOMAIN value /\ ~IsList(value.plan)
            THEN /\ pc[r] = "raised"
                 /\ exc[r] = [type |-> "TypeError", at |-> "execute_plan"]
                 /\ idx[r] = 0
            ELSE /\ idx[r] >= 1
                 /\ plan[r] = PlanField(value)
                 /\ ("plan" \notin DOMAIN value /\ Returned(r)) =>
                       Cardinality(SynthCalls(r)) = 1

\* the planner answered the JSON number 42 and the request ended with
\* AttributeError before any step
C25_NonObjectCrashes ==
    \E r \in DOMAIN pc :
        /\ Answered(r)
        /\ planner_text[r].text = << "42" >>
        /\ pc[r] = "raised"
        /\ exc[r].type = "AttributeError"

\* the planner answered an object without a plan member and the run returned
\* the synthesis answer
C25_AbsentPlanSynthesizes ==
    \E r \in DOMAIN pc :
        /\ Answered(r)
        /\ planner_text[r].text = << "{", "no_plan", "}" >>
        /\ Returned(r)
        /\ plan[r] = << >>
        /\ SynthCalls(r) # {}

-----------------------------------------------------------------------------
(* C21 *)

\* the members of a sequence
Range(seq) == { seq[i] : i \in DOMAIN seq }

\* search_kb, asked for a word of the entry with room for every row, returns it
FoundBySearch(title, content, query) ==
    [title |-> title, content |-> content] \in Range(search_kb(query, Len(kb), kb, TRUE))

\* C21: when POST /kb was called with a title, content, category and tags,
\* the answer is HTTP 200 with status "added" and the title, and the entry is
\* in the knowledge base, where search_kb returns it for a matching query.
C21_PostKbAddsEntry ==
    (api.endpoint = "POST /kb" /\ api.request = E_holiday) =>
        /\ api.status_code = 200
        /\ api.body = [status |-> "added", title |-> E_holiday.title]
        /\ FoundBySearch(E_holiday.title, E_holiday.content, "holiday")

\* What does hold: POST /kb never reaches the body of add_kb_entry; it
\* answers 500 and leaves the knowledge base as it was.
C21_PostKbAlwaysFails ==
    [][\A entry \in KbEntries : add_knowledge_base_entry(entry) =>
            /\ api'.status_code = 500
            /\ ~api'.called
            /\ kb' = kb]_vars

\* What does hold: add_kb_entry called with title and content alone stores
\* the entry, and search_kb returns it for a word of its title.
C21_AddKbEntryIsSearchable ==
    (api.endpoint = "tools.kb.add_kb_entry" /\ api.returned) =>
        FoundBySearch(api.request.title, api.request.content, "holiday")

\* POST /kb with all four members was answered 500 and the entry is not in
\* the knowledge base
C21_PostKbAnswered500 ==
    /\ api.endpoint = "POST /kb"
    /\ api.request = E_holiday
    /\ api.status_code = 500
    /\ ~FoundBySearch(E_holiday.title, E_holiday.content, "holiday")

\* add_kb_entry itself returned True and the entry is found
C21_DirectCallStored ==
    /\ api.endpoint = "tools.kb.add_kb_entry"
    /\ api.returned
    /\ FoundBySearch(E_holiday.title, E_holiday.content, "holiday")

-----------------------------------------------------------------------------
(* C26 *)

\* the three required columns of a ticket row
RequiredFields == {"customer_name", "customer_email", "subject"}

\* C26: every ticket row in the store has a non-empty customer_name,
\* customer_email and subject; a create_ticket call whose value for one of
\* them is empty once stripped returns None and inserts nothing.
C26_NoEmptyRequiredField ==
    /\ \A k \in DOMAIN tickets : \A f \in RequiredFields : tickets[k][f] # ""
    /\ (/\ api.endpoint = "POST /tickets"
        /\ \E f \in RequiredFields : Strip(Get(api.request, f, "")) = "")
          => api.returned = NoneId

\* What does hold: the three values are tested before they are stripped.  A
\* call with an empty (or absent) value returns None and inserts nothing; a
\* stored empty column comes from a whitespace-only value.
C26_EmptyBeforeStripRejected ==
    [][\A ticket \in TicketBodies :
          (/\ create_ticket_endpoint(ticket)
           /\ \/ Get(ticket, "customer_name", "Unknown") = ""
              \/ Get(ticket, "customer_email", "") = ""
              \/ Get(ticket, "subject", "No Subject") = "")
            => (tickets' = tickets /\ api'.returned = NoneId)]_vars

\* POST /tickets with customer_name " " got a ticket id and the row's
\* customer_name is the empty string
C26_BlankNameStored ==
    /\ api.endpoint = "POST /tickets"
    /\ api.request = T_blank_name
    /\ api.status_code = 200
    /\ \E k \in DOMAIN tickets :
          /\ tickets[k].id = api.returned
          /\ tickets[k].customer_name = ""

-----------------------------------------------------------------------------
(* C27 *)

HasTicket(ticket_id) == \E k \in DOMAIN tickets : tickets[k].id = ticket_id
StatusGiven(update_data) == Truthy(Get(update_data, "status", None))

\* C27: PUT /tickets/{id} answers 404 when no ticket has that id and 400 when
\* the body has no status, and POST /tickets answers 400 when create_ticket
\* returned no id.
C27_ClientErrorsDelivered ==
    /\ (api.endpoint = "PUT /tickets" /\ ~StatusGiven(api.request.update_data))
          => api.status_code = 400
    /\ (/\ api.endpoint = "PUT /tickets"
        /\ StatusGiven(api.request.update_data)
        /\ ~HasTicket(api.request.ticket_id))
          => api.status_code = 404
    /\ (api.endpoint = "POST /tickets" /\ api.returned = NoneId)
          => api.status_code = 400

\* What does hold: the handler's own `except Exception` catches the 400 and
\* the 404 it raised, so each of the three cases is answered 500, with the
\* intended status left in the detail text; the ticket endpoints answer 200
\* or 500 and nothing else.
C27_ClientErrorsBecome500 ==
    /\ api.endpoint \in {"PUT /tickets", "POST /tickets", "GET /tickets"}
          => api.status_code \in {200, 500}
    /\ (api.endpoint = "PUT /tickets" /\ ~StatusGiven(api.request.update_data))
          => (api.status_code = 500 /\ api.body.detail = "400: Status is required")
    /\ (/\ api.endpoint = "PUT /tickets"
        /\ StatusGiven(api.request.update_data)
        /\ ~HasTicket(api.request.ticket_id))
          => (api.status_code = 500 /\ api.body.detail = "404: Ticket not found")
    /\ (api.endpoint = "POST /tickets" /\ api.returned = NoneId)
          => (api.status_code = 500 /\ api.body.detail = "400: Failed to create ticket")

\* PUT /tickets/{id} with a status and an id of no ticket was answered 500
C27_UnknownTicketAnswered500 ==
    /\ api.endpoint = "PUT /tickets"
    /\ StatusGiven(api.request.update_data)
    /\ ~HasTicket(api.request.ticket_id)
    /\ api.called
    /\ api.status_code = 500

-----------------------------------------------------------------------------
(* C28 *)

\* the open rows as list_open_tickets reports them
OpenTickets ==
    LET open == Reverse(SelectSeq(tickets, LAMBDA row : row.status = "open"))
    IN  [i \in 1..Len(open) |->
            [id |-> open[i].id, customer_name |-> open[i].customer_name,
             subject |-> open[i].subject]]

StatusesValid == \A k \in DOMAIN tickets : tickets[k].status \in Statuses

\* the step is a POST /tickets that got an id: the ticket is the row appended
\* and its status is open
CreatedOpen ==
    (api'.endpoint = "POST /tickets" /\ api'.returned # NoneId) =>
        /\ Len(tickets') = Len(tickets) + 1
        /\ tickets'[Len(tickets')].id = api'.returned
        /\ tickets'[Len(tickets')].status = "open"

\* the step is an update_ticket_status call with a status outside the set or
\* an id of no ticket: it returns False and changes no row
BadUpdateRejected ==
    (/\ api'.endpoint = "PUT /tickets"
     /\ api'.called
     /\ \/ api'.request.update_data.status \notin Statuses
        \/ ~HasTicket(api'.request.ticket_id))
      => (api'.returned = FALSE /\ tickets' = tickets)

C28_ListLeavesOutClosed ==
    /\ api.endpoint = "GET /tickets"
    /\ Len(api.returned) = 2
    /\ api.returned = OpenTickets
    /\ \E k \in DOMAIN tickets : tickets[k].status = "closed"

-----------------------------------------------------------------------------
(* C29 *)

\* C29: GET /kb/search returns at most 20 results, for every top_k the
\* client passes (zero and negative values included) and every size of the
\* knowledge base.
C29_AtMostTwentyResults ==
    api.endpoint = "GET /kb/search" => Len(api.body.results) <= TopKCap

\* What does hold: for top_k >= 0 the answer has at most min(top_k, 20)
\* results; a negative top_k passes the cap unchanged and, as an SQL LIMIT,
\* puts no limit on the rows, so the answer holds every matching row.
C29_CapHoldsForNonNegativeTopK ==
    api.endpoint = "GET /kb/search" =>
        LET top_k == api.request.top_k
            hits  == search_kb(api.request.q, Len(kb), kb, TRUE)
        IN  IF top_k >= 0
            THEN /\ Len(api.body.results) <= Min(top_k, TopKCap)
                 /\ Len(api.body.results) <= Len(hits)
            ELSE api.body.results \in {hits, << >>}

\* GET /kb/search?q=policy&top_k=-1 on a knowledge base with 21 matching
\* entries answered all 21
C29_NegativeTopKReturnsAll ==
    /\ api.endpoint = "GET /kb/search"
    /\ api.request.top_k < 0
    /\ Len(api.body.results) > TopKCap

\* GET /kb/search with top_k 25 on the same knowledge base answered 20
C29_CapApplied ==
    /\ api.endpoint = "GET /kb/search"
    /\ api.request.top_k > TopKCap
    /\ Len(api.body.results) = TopKCap

-----------------------------------------------------------------------------
(* C30 *)

IsSampleTicket(row) ==
    /\ row.customer_name = "John Doe"
    /\ row.customer_email = "john.doe@example.com"
    /\ row.subject = "Order Status Inquiry"

SampleTickets(rows) == { k \in DOMAIN rows : IsSampleTicket(rows[k]) }

\* the rows of before are still there, unchanged and in place
TicketsKept == SubSeq(tickets', 1, Len(tickets)) = tickets

\* C30: init_db is idempotent: after any server start the store is as after
\* the first one, that is, the knowledge base is exactly the 12 seed entries
\* and there is exactly one seeded sample ticket, and a server start removes
\* no ticket created earlier.
C30_InitDbIdempotent ==
    /\ [](api.endpoint = "startup" =>
            /\ kb = kb_samples
            /\ Cardinality(SampleTickets(tickets)) = 1)
    /\ [][lifespan => TicketsKept]_vars

\* What does hold: every server start leaves the knowledge base at exactly
\* the 12 seed entries and keeps every ticket row as it was, and it appends
\* one more copy of the sample ticket.
C30_KbReseededTicketAdded ==
    /\ [](api.endpoint = "startup" => kb = kb_samples)
    /\ [][lifespan =>
            /\ TicketsKept
            /\ Len(tickets') = Len(tickets) + 1
            /\ IsSampleTicket(tickets'[Len(tickets')])
            /\ Cardinality(SampleTickets(tickets')) =
                  Cardinality(SampleTickets(tickets)) + 1]_vars

\* after a server start the table holds two copies of the sample ticket and,
\* unchanged, a ticket created and closed before
C30_SecondSampleTicket ==
    /\ api.endpoint = "startup"
    /\ Cardinality(SampleTickets(tickets)) = 2
    /\ \E k \in DOMAIN tickets :
          ~IsSampleTicket(tickets[k]) /\ tickets[k].status = "closed"
====
